---- MODULE Spec2Model ----
(***************************************************************************)
(* Model of tree-scaper's TreeVisualizer (src/src/tree_scaper/             *)
(* tree_visualizer.py): the two-pass layout engine (_measure_tree,         *)
(* _apply_vstack_alignment, _assign_positions), driven by draw() and by    *)
(* Ctrl+wheel zoom events.                                                 *)
(*                                                                         *)
(* Representation.                                                         *)
(*  - The input tree is a function from node ids 1..n to node dicts; the   *)
(*    root is node 1 and "branches" holds the ids of the children in       *)
(*    child order.  Ids are the pre-order numbering of the tree.           *)
(*  - A text (title or subtitle) is the sequence of the lengths of its     *)
(*    lines, i.e. the text after split("\n"): "ab\nc" is <<2, 1>>.         *)
(*  - The float zoom level is a fixed-point number: zoom = z / ZoomDen.    *)
(*    With zoom_factor and all levels powers of two the float arithmetic   *)
(*    of the program is exact, and so is the fixed-point model of it.      *)
(*  - position None is the empty tuple; an assigned position is <<x, y>>.  *)
(***************************************************************************)
EXTENDS Integers, Sequences, FiniteSets, TLC

\* ------------------------------------------------------------------ bounds

\* Largest number of nodes of an input tree.
MaxNodes == 5

\* Length, in characters, of the longest text line of a node.
MaxChars == 5

\* Largest number of nodes of an input tree whose nodes may lack keys.
MaxEventNodes == 3

\* Largest number of wheel steps the view is scrolled away from its origin,
\* in each direction.
MaxScroll == 1

\* ------------------------------------------------------- configuration

\* Denominator of the fixed-point zoom levels (zoom = z / ZoomDen).
ZoomDen == 2

\* config.zoom.min_level (0.5), config.zoom.max_level (1.0) and
\* config.zoom.zoom_factor (2.0).
min_zoom == 1

max_zoom == 2

zoom_factor == 2

\* config.zoom.start_level: in range (0.5, 1.0) or, since the configuration
\* model does not validate it against the levels, out of range (2.0).
StartLevels == {min_zoom, max_zoom, max_zoom * zoom_factor}

\* config.font.size (base_font_size) and config.font.min_size.
base_font_size == 2

min_font_size == 1

\* config.node_size.margin_x / margin_y.
config_margin_x == 1

config_margin_y == 1

\* config.layout.horizontal_spacing / vertical_spacing.
config_horizontal_spacing == 2

config_vertical_spacing == 1

\* config.window.scroll_speed_horizontal / scroll_speed_vertical.
scroll_speed_horizontal == 3

scroll_speed_vertical == 2

\* config.root_node_position scaled by the window size.
root_node_position == [x |-> 12, y |-> 3]

\* ------------------------------------------------------------ helpers

None == <<>>

Max(a, b) == IF a >= b THEN a ELSE b

Min(a, b) == IF a <= b THEN a ELSE b

RECURSIVE SumSeq(_)
SumSeq(s) == IF s = <<>> THEN 0 ELSE Head(s) + SumSeq(Tail(s))

\* Python's max() over a non-empty list.
RECURSIVE MaxSeq(_)
MaxSeq(s) == IF Len(s) = 1 THEN s[1] ELSE Max(Head(s), MaxSeq(Tail(s)))

\* Python's int(c * zoom) for c >= 0 and zoom = z / ZoomDen >= 0.
IntTimesZoom(c, z) == (c * z) \div ZoomDen

\* ------------------------------------------------------------- inputs

\* The texts a node may carry: one long line (a wide, low node) or two
\* short lines (a narrow, tall node).
Titles == {<<MaxChars>>, <<1, 2>>}

Subtitles == {<<1>>}

\* The chain of ancestors of node i (i included) under parent function p.
RECURSIVE Chain(_, _)
Chain(p, i) == IF i = 1 THEN {1} ELSE {i} \cup Chain(p, p[i])

\* Parent functions over 1..n that number an ordered tree in pre-order: the
\* parent of node i lies on the path from the root to node i - 1.
ParentFunctions(n) ==
    { p \in [1..n -> 0..n] :
        /\ p[1] = 0
        /\ \A i \in 2..n : p[i] \in Chain(p, i - 1) }

\* The ids of the children of node i, in child order (increasing id).
RECURSIVE ChildrenFrom(_, _, _, _)
ChildrenFrom(p, n, i, k) ==
    IF k > n THEN <<>>
    ELSE IF p[k] = i THEN <<k>> \o ChildrenFrom(p, n, i, k + 1)
    ELSE ChildrenFrom(p, n, i, k + 1)

\* The input trees (json.load of the data file): every ordered tree of at
\* most MaxNodes nodes, every node with a title, a subtitle and branches.
Trees ==
    UNION { UNION { { [i \in 1..n |-> [title |-> t[i],
                                       subtitle |-> s[i],
                                       branches |-> ChildrenFrom(p, n, i, i + 1)]] :
                        t \in [1..n -> Titles], s \in [1..n -> Subtitles] } :
                    p \in ParentFunctions(n) } :
            n \in 1..MaxNodes }

Root == 1

\* The dict d without key k.
Without(d, k) == [f \in DOMAIN d \ {k} |-> d[f]]

\* The dicts a data file may hold for node d: d itself, d without its
\* title, d without its subtitle and, for a leaf, d without "branches".
NodeDicts(d) ==
    {d, Without(d, "title"), Without(d, "subtitle")}
      \cup (IF d.branches = <<>> THEN {Without(d, "branches")} ELSE {})

\* The input trees of at most MaxEventNodes nodes, with the nodes' dicts
\* complete or lacking a key.
EventTrees ==
    UNION { {e \in [DOMAIN t -> UNION {NodeDicts(t[i]) : i \in DOMAIN t}] :
                \A i \in DOMAIN t : e[i] \in NodeDicts(t[i])} :
            t \in {u \in Trees : Len(u) <= MaxEventNodes} }

\* node_data.get("branches", [])
BranchesOf(node_data) ==
    IF "branches" \in DOMAIN node_data THEN node_data.branches ELSE <<>>

\* KeyErrors with the subtitle read by node_data.get("subtitle", "").
KeyErrorsTitleOnly(node_data) == {"title"} \ DOMAIN node_data

\* KeyErrors with the branches read by node_data["branches"].
KeyErrorsWithBranches(node_data) ==
    {"title", "subtitle", "branches"} \ DOMAIN node_data

\* The keys _measure_node and _measure_tree subscript (node_data["title"],
\* node_data["subtitle"]) that node_data lacks: each raises KeyError.
KeyErrors(node_data) == {"title", "subtitle"} \ DOMAIN node_data

\* node_data[key].split("\n"); the subscript raises KeyError when the key
\* is missing, so the second branch is never the value of a pass that
\* completes.
Lines(node_data, key) ==
    IF key \in DOMAIN node_data THEN node_data[key] ELSE <<0>>

\* _measure_tree(t[id]) raises KeyError: _measure_node subscripts the title
\* and the subtitle of every node of the subtree.
RECURSIVE Raises(_, _)
Raises(t, id) ==
    \/ KeyErrors(t[id]) # {}
    \/ \E k \in 1..Len(BranchesOf(t[id])) : Raises(t, BranchesOf(t[id])[k])

\* _get_max_depth(node, level)
RECURSIVE GetMaxDepth(_, _, _)
GetMaxDepth(t, id, level) ==
    LET branches == BranchesOf(t[id])
    IN  IF branches = <<>> THEN level
        ELSE MaxSeq([k \in 1..Len(branches) |-> GetMaxDepth(t, branches[k], level + 1)])

\* -------------------------------------------------------------- state

VARIABLES
    tree,                \* self.tree: the input tree
    max_depth,           \* self.max_depth
    v_stack_leafs,       \* self.v_stack_leafs
    align_v_stack,       \* self.align_v_stack
    zoom,                \* self.zoom, in units of 1 / ZoomDen
    font_size,           \* point size of self.font_top / self.font_bottom
    node_margin_x,       \* self.node_margin_x
    node_margin_y,       \* self.node_margin_y
    horizontal_spacing,  \* self.horizontal_spacing
    vertical_spacing,    \* self.vertical_spacing
    scroll_x,            \* self.scroll_x
    scroll_y,            \* self.scroll_y
    measured_tree,       \* self.measured_tree (None: not yet assigned)
    calls,               \* pending _assign_positions calls, next call first
    pc                   \* position of the program in draw()

vars == <<tree, max_depth, v_stack_leafs, align_v_stack, zoom, font_size,
          node_margin_x, node_margin_y, horizontal_spacing, vertical_spacing,
          scroll_x, scroll_y, measured_tree, calls, pc>>

\* ------------------------------------------------------- text metrics

\* pygame: font.render(line).get_width() and .get_height() of a line of
\* `chars` characters in a font of point size `size` (a fixed-pitch font
\* whose line height exceeds the point size by one pixel).
FontWidth(size, chars) == chars * size

FontHeight(size) == size + 1

\* ------------------------------------------- _recompute_zoom_dependent_state

scaled_size(z) == Max(min_font_size, IntTimesZoom(base_font_size, z))

ZoomedMarginX(z) == Max(1, IntTimesZoom(config_margin_x, z))

ZoomedMarginY(z) == Max(1, IntTimesZoom(config_margin_y, z))

ZoomedHorizontalSpacing(z) == Max(1, IntTimesZoom(config_horizontal_spacing, z))

ZoomedVerticalSpacing(z) == Max(1, IntTimesZoom(config_vertical_spacing, z))

RecomputeZoomDependentState(z) ==
    /\ font_size' = scaled_size(z)
    /\ node_margin_x' = ZoomedMarginX(z)
    /\ node_margin_y' = ZoomedMarginY(z)
    /\ horizontal_spacing' = ZoomedHorizontalSpacing(z)
    /\ vertical_spacing' = ZoomedVerticalSpacing(z)

\* ------------------------------------------------------- _measure_node

LineWidths(lines) == [k \in 1..Len(lines) |-> FontWidth(font_size, lines[k])]

LineHeights(lines) == [k \in 1..Len(lines) |-> FontHeight(font_size)]

MeasureNode(node_data) ==
    LET title_lines == Lines(node_data, "title")
        subtitle_lines == Lines(node_data, "subtitle")
        text_widths == LineWidths(title_lines) \o LineWidths(subtitle_lines)
        width == MaxSeq(text_widths) + node_margin_x * 2
        top_height == SumSeq(LineHeights(title_lines)) + node_margin_y * 2
        bottom_height == SumSeq(LineHeights(subtitle_lines)) + node_margin_y * 2
    IN  [width |-> width,
         height |-> top_height + bottom_height,
         top_height |-> top_height,
         bottom_height |-> bottom_height]

\* ------------------------------------------------------- _measure_tree

\* [f(m[c]) for c in branches]
FieldOf(m, branches, field) == [k \in 1..Len(branches) |-> m[branches[k]][field]]

\* all(not child.get("branches") for child in measured_branches)
AllLeaves(m, branches) == \A k \in 1..Len(branches) : m[branches[k]].branches = <<>>

\* RowWidth without total_width = max(total_width, node_width).
RowWidthNoMax(m, branches, w) ==
    SumSeq(FieldOf(m, branches, "subtree_width"))
      + horizontal_spacing * (Len(branches) - 1)

\* The row-layout footprint of a node of own size (w, h) over `branches`.
RowWidth(m, branches, w) ==
    Max(SumSeq(FieldOf(m, branches, "subtree_width"))
          + horizontal_spacing * (Len(branches) - 1),
        w)

RowHeight(m, branches, h) ==
    h + vertical_spacing + MaxSeq(FieldOf(m, branches, "subtree_height"))

\* The stack-layout footprint of a node of own size (w, h) over `branches`.
StackWidth(m, branches, w) == Max(w, MaxSeq(FieldOf(m, branches, "width")))

\* StackHeight with one spacing per child, the first included.
StackHeightExtraSpacing(m, branches, h) ==
    h + vertical_spacing
      + (SumSeq(FieldOf(m, branches, "height"))
           + vertical_spacing * Len(branches))

StackHeight(m, branches, h) ==
    h + vertical_spacing
      + (SumSeq(FieldOf(m, branches, "height"))
           + vertical_spacing * (Len(branches) - 1))

\* LeavesOnly with any() in place of all().
LeavesOnlyAny(m, branches) ==
    IF branches # <<>>
    THEN v_stack_leafs /\ \E k \in 1..Len(branches) : m[branches[k]].branches = <<>>
    ELSE FALSE

LeavesOnly(m, branches) ==
    IF branches # <<>> THEN v_stack_leafs /\ AllLeaves(m, branches) ELSE FALSE

\* The measured node built for input node `id`, given the measured
\* branches m (a function on the ids of the branches' subtrees).
MeasuredNode(t, id, m) ==
    LET own == MeasureNode(t[id])
        branches == BranchesOf(t[id])
        leaves_only == LeavesOnly(m, branches)
        total_width ==
            IF branches # <<>> /\ ~leaves_only THEN RowWidth(m, branches, own.width)
            ELSE IF branches # <<>> /\ leaves_only THEN StackWidth(m, branches, own.width)
            ELSE own.width
        total_height ==
            IF branches # <<>> /\ ~leaves_only THEN RowHeight(m, branches, own.height)
            ELSE IF branches # <<>> /\ leaves_only THEN StackHeight(m, branches, own.height)
            ELSE own.height
    IN  [title |-> Lines(t[id], "title"),
         subtitle |-> Lines(t[id], "subtitle"),
         width |-> own.width,
         height |-> own.height,
         top_height |-> own.top_height,
         bottom_height |-> own.bottom_height,
         subtree_width |-> total_width,
         subtree_height |-> total_height,
         position |-> None,
         leaves_only |-> leaves_only,
         branches |-> branches]

\* _measure_tree(t[id]): the measured subtree of node id, as a function
\* from the ids of the subtree to measured nodes.
RECURSIVE MeasureTree(_, _)
RECURSIVE MeasureBranches(_, _)
MeasureBranches(t, branches) ==
    IF branches = <<>> THEN <<>>
    ELSE MeasureTree(t, Head(branches)) @@ MeasureBranches(t, Tail(branches))

MeasureTree(t, id) ==
    LET measured_branches == MeasureBranches(t, BranchesOf(t[id]))
    IN  (id :> MeasuredNode(t, id, measured_branches)) @@ measured_branches

\* ---------------------------------------------- _apply_vstack_alignment

\* A node without branches: its subtree is its own box.
AlignLeaf(m, id) ==
    [m EXCEPT ![id].subtree_width = m[id].width,
              ![id].subtree_height = m[id].height]

\* TargetWidth with the horizontal padding added to the shared width.
TargetWidthPadded(m, id) ==
    Max(m[id].width, MaxSeq(FieldOf(m, m[id].branches, "width"))) + node_margin_x * 2

\* max(parent width, max(child width)) over a stack.
TargetWidth(m, id) ==
    Max(m[id].width, MaxSeq(FieldOf(m, m[id].branches, "width")))

\* AlignStackChild leaving the child's own width as measured.
AlignStackChildKeepWidth(child, target_width) ==
    [child EXCEPT !.subtree_width = target_width,
                  !.subtree_height = child.height]

\* AlignStackChild writing the shared width to the child's height as well.
AlignStackChildHeight(child, target_width) ==
    [child EXCEPT !.width = target_width,
                  !.height = target_width,
                  !.subtree_width = target_width,
                  !.subtree_height = target_width]

\* AlignStackChild without the update of the child's subtree_width.
AlignStackChildStale(child, target_width) ==
    [child EXCEPT !.width = target_width,
                  !.subtree_height = child.height]

\* A child of an aligned stack takes the stack's width.
AlignStackChild(child, target_width) ==
    [child EXCEPT !.width = target_width,
                  !.subtree_width = target_width,
                  !.subtree_height = child.height]

\* The parent of an aligned stack, given the summed height of its children.
AlignStackParent(parent, target_width, children_height) ==
    [parent EXCEPT !.width = target_width,
                   !.subtree_width = target_width,
                   !.subtree_height =
                       parent.height + vertical_spacing + children_height]

\* A leaves_only node with align_v_stack set: parent and children share
\* the target width.
AlignStack(m, id) ==
    LET branches == m[id].branches
        target_width == TargetWidth(m, id)
        children_height ==
            SumSeq(FieldOf(m, branches, "height"))
              + vertical_spacing * (Len(branches) - 1)
    IN  [n \in DOMAIN m |->
           IF n = id
           THEN AlignStackParent(m[n], target_width, children_height)
           ELSE IF \E k \in 1..Len(branches) : branches[k] = n
           THEN AlignStackChild(m[n], target_width)
           ELSE m[n]]

\* AlignRow without the spacing between the branches' subtrees.
AlignRowNoSpacing(m, id) ==
    LET branches == m[id].branches
        total_width == SumSeq(FieldOf(m, branches, "subtree_width"))
    IN  [m EXCEPT ![id].subtree_width = Max(m[id].width, total_width),
                  ![id].subtree_height =
                      m[id].height + vertical_spacing
                        + MaxSeq(FieldOf(m, branches, "subtree_height"))]

\* Any other node with branches: the row footprint is recomputed from the
\* branches' subtree sizes.
AlignRow(m, id) ==
    LET branches == m[id].branches
        total_width == SumSeq(FieldOf(m, branches, "subtree_width"))
                         + horizontal_spacing * (Len(branches) - 1)
    IN  [m EXCEPT ![id].subtree_width = Max(m[id].width, total_width),
                  ![id].subtree_height =
                      m[id].height + vertical_spacing
                        + MaxSeq(FieldOf(m, branches, "subtree_height"))]

\* The body of _apply_vstack_alignment for node id, once the recursive
\* calls on its branches have returned: m is the tree as they left it.
AlignNode(m, id) ==
    IF m[id].branches = <<>> THEN AlignLeaf(m, id)
    ELSE IF m[id].leaves_only /\ align_v_stack THEN AlignStack(m, id)
    ELSE AlignRow(m, id)

\* _apply_vstack_alignment(measured_tree) on the subtree of node id of the
\* tree m, mutated in place: the tree after the call.
RECURSIVE ApplyVstackAlignment(_, _)
RECURSIVE AlignBranches(_, _)
AlignBranches(m, branches) ==
    IF branches = <<>> THEN m
    ELSE AlignBranches(ApplyVstackAlignment(m, Head(branches)), Tail(branches))

ApplyVstackAlignment(m, id) == AlignNode(AlignBranches(m, m[id].branches), id)

\* --------------------------------------------------- _assign_positions

Call(id, x, y) == [node |-> id, x |-> x, y |-> y]

\* StackCalls stopping before the last child (for child in branches[:-1]).
RECURSIVE StackCallsButLast(_, _, _, _)
StackCallsButLast(m, branches, x_parent, y_cursor) ==
    IF Len(branches) <= 1 THEN <<>>
    ELSE LET child_height == m[Head(branches)].height
             child_center_y == y_cursor + child_height \div 2
         IN  <<Call(Head(branches), x_parent, child_center_y)>>
               \o StackCallsButLast(m, Tail(branches), x_parent,
                                    child_center_y + child_height \div 2
                                      + vertical_spacing)

\* The recursive calls of the stack branch, in call order: the children
\* share the parent's x and follow one another downwards from y_cursor.
RECURSIVE StackCalls(_, _, _, _)
StackCalls(m, branches, x_parent, y_cursor) ==
    IF branches = <<>> THEN <<>>
    ELSE LET child_height == m[Head(branches)].height
             child_center_y == y_cursor + child_height \div 2
         IN  <<Call(Head(branches), x_parent, child_center_y)>>
               \o StackCalls(m, Tail(branches), x_parent,
                             child_center_y + child_height \div 2 + vertical_spacing)

\* RowCalls without the horizontal spacing between the branches.
RECURSIVE RowCallsNoSpacing(_, _, _, _, _)
RowCallsNoSpacing(m, branches, current_x, position_y, parent_height) ==
    IF branches = <<>> THEN <<>>
    ELSE LET branch_node_w == m[Head(branches)].subtree_width
             branch_node_x == current_x + branch_node_w \div 2
             branch_node_y == position_y + parent_height \div 2
                                + vertical_spacing
                                + m[Head(branches)].height \div 2
         IN  <<Call(Head(branches), branch_node_x, branch_node_y)>>
               \o RowCallsNoSpacing(m, Tail(branches),
                                    current_x + branch_node_w,
                                    position_y, parent_height)

\* RowCalls advancing by the branch's own width, not its subtree_width.
RECURSIVE RowCallsOwnWidth(_, _, _, _, _)
RowCallsOwnWidth(m, branches, current_x, position_y, parent_height) ==
    IF branches = <<>> THEN <<>>
    ELSE LET branch_node_w == m[Head(branches)].width
             branch_node_x == current_x + branch_node_w \div 2
             branch_node_y == position_y + parent_height \div 2
                                + vertical_spacing
                                + m[Head(branches)].height \div 2
         IN  <<Call(Head(branches), branch_node_x, branch_node_y)>>
               \o RowCallsOwnWidth(m, Tail(branches),
                                   current_x + branch_node_w + horizontal_spacing,
                                   position_y, parent_height)

\* The recursive calls of the row branch, in call order: the children
\* follow one another rightwards from current_x, below a parent at
\* position.y of height parent_height.
RECURSIVE RowCalls(_, _, _, _, _)
RowCalls(m, branches, current_x, position_y, parent_height) ==
    IF branches = <<>> THEN <<>>
    ELSE LET branch_node_w == m[Head(branches)].subtree_width
             branch_node_x == current_x + branch_node_w \div 2
             branch_node_y == position_y + parent_height \div 2
                                + vertical_spacing
                                + m[Head(branches)].height \div 2
         IN  <<Call(Head(branches), branch_node_x, branch_node_y)>>
               \o RowCalls(m, Tail(branches),
                           current_x + branch_node_w + horizontal_spacing,
                           position_y, parent_height)

\* BranchCalls starting the row a whole band width, not half of it, to the
\* left of the parent.
BranchCallsNotHalved(m, id, x, y) ==
    LET branches == m[id].branches
        total_width == SumSeq(FieldOf(m, branches, "subtree_width"))
                         + horizontal_spacing * (Len(branches) - 1)
    IN  IF branches = <<>> THEN <<>>
        ELSE IF m[id].leaves_only
        THEN StackCalls(m, branches, x, (y + m[id].height \div 2) + vertical_spacing)
        ELSE RowCalls(m, branches, x - total_width, y, m[id].height)

\* The recursive calls _assign_positions(m[id], (x, y)) makes, in order.
BranchCalls(m, id, x, y) ==
    LET branches == m[id].branches
        total_width == SumSeq(FieldOf(m, branches, "subtree_width"))
                         + horizontal_spacing * (Len(branches) - 1)
    IN  IF branches = <<>> THEN <<>>
        ELSE IF m[id].leaves_only
        THEN StackCalls(m, branches, x, (y + m[id].height \div 2) + vertical_spacing)
        ELSE RowCalls(m, branches, x - total_width \div 2, y, m[id].height)

\* measured_tree["_measured"]["position"] = (position.x, position.y)
SetPosition(m, id, x, y) == [m EXCEPT ![id].position = <<x, y>>]

\* ------------------------------------------------------------- _set_zoom

\* zoom * zoom_factor ** y for a wheel step y.
Scaled(z, y) == IF y >= 0 THEN z * zoom_factor ELSE z \div zoom_factor

Clamp(new_zoom) == Max(min_zoom, Min(max_zoom, new_zoom))

\* event.y of a MOUSEWHEEL event.
WheelSteps == {-1, 1}

\* ------------------------------------------------------------ the program

\* TreeVisualizer.__init__ on the input tree t.
Constructed(t) ==
    /\ tree = t
    /\ max_depth = GetMaxDepth(t, Root, 0)
    /\ v_stack_leafs \in BOOLEAN
    /\ align_v_stack \in BOOLEAN
    /\ zoom \in StartLevels
    /\ font_size = scaled_size(zoom)
    /\ node_margin_x = ZoomedMarginX(zoom)
    /\ node_margin_y = ZoomedMarginY(zoom)
    /\ horizontal_spacing = ZoomedHorizontalSpacing(zoom)
    /\ vertical_spacing = ZoomedVerticalSpacing(zoom)
    /\ scroll_x = 0
    /\ scroll_y = 0
    /\ measured_tree = None
    /\ calls = <<>>
    /\ pc = "constructed"

\* The program started on a data file whose nodes carry every key.
Init == \E t \in Trees : Constructed(t)

\* draw() is called and enters _update_tree_layout.
Draw ==
    /\ pc = "constructed"
    /\ pc' = "measure"
    /\ UNCHANGED <<tree, max_depth, v_stack_leafs, align_v_stack, zoom,
                   font_size, node_margin_x, node_margin_y,
                   horizontal_spacing, vertical_spacing, scroll_x, scroll_y,
                   measured_tree, calls>>

\* _update_tree_layout: self.measured_tree = self._measure_tree(self.tree),
\* up to the call of the next pass.  A KeyError of _measure_tree leaves
\* through _update_tree_layout and draw before the assignment is made.
UpdateTreeLayoutMeasure ==
    /\ pc = "measure"
    /\ IF Raises(tree, Root)
       THEN /\ pc' = "raised"
            /\ UNCHANGED <<measured_tree, calls>>
       ELSE /\ measured_tree' = MeasureTree(tree, Root)
            /\ IF v_stack_leafs /\ align_v_stack
               THEN /\ pc' = "align"
                    /\ calls' = <<>>
               ELSE /\ pc' = "assign"
                    /\ calls' = <<Call(Root, root_node_position.x,
                                       root_node_position.y)>>
    /\ UNCHANGED <<tree, max_depth, v_stack_leafs, align_v_stack, zoom,
                   font_size, node_margin_x, node_margin_y,
                   horizontal_spacing, vertical_spacing, scroll_x, scroll_y>>

\* _update_tree_layout: self._apply_vstack_alignment(self.measured_tree).
UpdateTreeLayoutAlign ==
    /\ pc = "align"
    /\ measured_tree' = ApplyVstackAlignment(measured_tree, Root)
    /\ pc' = "assign"
    /\ calls' = <<Call(Root, root_node_position.x, root_node_position.y)>>
    /\ UNCHANGED <<tree, max_depth, v_stack_leafs, align_v_stack, zoom,
                   font_size, node_margin_x, node_margin_y,
                   horizontal_spacing, vertical_spacing, scroll_x, scroll_y>>

\* One call of _assign_positions: the node's position is set and the calls
\* for its branches come next, before the calls still pending for the
\* siblings of its ancestors (depth-first, pre-order).  When no call is
\* left, _update_tree_layout returns and the render loop runs.
AssignPositions ==
    /\ pc = "assign"
    /\ calls # <<>>
    /\ LET call == Head(calls)
       IN  /\ measured_tree' = SetPosition(measured_tree, call.node, call.x, call.y)
           /\ calls' = BranchCalls(measured_tree', call.node, call.x, call.y)
                         \o Tail(calls)
    /\ pc' = IF calls' = <<>> THEN "render" ELSE "assign"
    /\ UNCHANGED <<tree, max_depth, v_stack_leafs, align_v_stack, zoom,
                   font_size, node_margin_x, node_margin_y,
                   horizontal_spacing, vertical_spacing, scroll_x, scroll_y>>

\* MouseWheelZoom with a _set_zoom that does not call _update_tree_layout.
MouseWheelZoomNoLayout ==
    /\ pc = "render"
    /\ \E y \in WheelSteps :
         LET new_zoom == Clamp(Scaled(zoom, y))
         IN  IF new_zoom = zoom
             THEN UNCHANGED <<zoom, font_size, node_margin_x, node_margin_y,
                              horizontal_spacing, vertical_spacing, pc>>
             ELSE /\ zoom' = new_zoom
                  /\ RecomputeZoomDependentState(new_zoom)
                  /\ pc' = "render"
    /\ UNCHANGED <<tree, max_depth, v_stack_leafs, align_v_stack, scroll_x,
                   scroll_y, measured_tree, calls>>

\* _handle_events: a MOUSEWHEEL event with Ctrl held, _set_zoom included.
MouseWheelZoom ==
    /\ pc = "render"
    /\ \E y \in WheelSteps :
         LET new_zoom == Clamp(Scaled(zoom, y))
         IN  IF new_zoom = zoom
             THEN UNCHANGED <<zoom, font_size, node_margin_x, node_margin_y,
                              horizontal_spacing, vertical_spacing, pc>>
             ELSE /\ zoom' = new_zoom
                  /\ RecomputeZoomDependentState(new_zoom)
                  /\ pc' = "measure"
    /\ UNCHANGED <<tree, max_depth, v_stack_leafs, align_v_stack, scroll_x,
                   scroll_y, measured_tree, calls>>

\* The view is within MaxScroll wheel steps of its origin.
ScrollBounded(scroll, speed) ==
    -(MaxScroll * speed) <= scroll /\ scroll <= MaxScroll * speed

\* _handle_events: a MOUSEWHEEL event with Shift and without Ctrl held.
MouseWheelScrollHorizontal ==
    /\ pc = "render"
    /\ \E y \in WheelSteps :
         /\ scroll_x' = scroll_x + y * scroll_speed_horizontal
         /\ ScrollBounded(scroll_x', scroll_speed_horizontal)
    /\ UNCHANGED <<tree, max_depth, v_stack_leafs, align_v_stack, zoom,
                   font_size, node_margin_x, node_margin_y,
                   horizontal_spacing, vertical_spacing, scroll_y,
                   measured_tree, calls, pc>>

\* _handle_events: a MOUSEWHEEL event with neither Ctrl nor Shift held.
MouseWheelScrollVertical ==
    /\ pc = "render"
    /\ \E y \in WheelSteps :
         /\ scroll_y' = scroll_y + y * scroll_speed_vertical
         /\ ScrollBounded(scroll_y', scroll_speed_vertical)
    /\ UNCHANGED <<tree, max_depth, v_stack_leafs, align_v_stack, zoom,
                   font_size, node_margin_x, node_margin_y,
                   horizontal_spacing, vertical_spacing, scroll_x,
                   measured_tree, calls, pc>>

Next ==
    \/ Draw
    \/ UpdateTreeLayoutMeasure
    \/ UpdateTreeLayoutAlign
    \/ AssignPositions
    \/ MouseWheelZoom

Spec == Init /\ [][Next]_vars

\* The program started on a data file whose nodes may lack keys, with the
\* wheel scrolling the view as well.
InitEvents == \E t \in EventTrees : Constructed(t)

NextEvents ==
    \/ Next
    \/ MouseWheelScrollHorizontal
    \/ MouseWheelScrollVertical

SpecEvents == InitEvents /\ [][NextEvents]_vars

\* _assign_positions run to its end from the pending calls cs.
RECURSIVE RunCalls(_, _)
RunCalls(m, cs) ==
    IF cs = <<>> THEN m
    ELSE LET call == Head(cs)
             positioned == SetPosition(m, call.node, call.x, call.y)
         IN  RunCalls(positioned,
                      BranchCalls(positioned, call.node, call.x, call.y)
                        \o Tail(cs))

\* The measured tree a whole _update_tree_layout() assigns for the input
\* tree t under the current font, margins and spacings.
UpdateTreeLayout(t) ==
    LET measured == MeasureTree(t, Root)
        aligned == IF v_stack_leafs /\ align_v_stack
                   THEN ApplyVstackAlignment(measured, Root)
                   ELSE measured
    IN  RunCalls(aligned, <<Call(Root, root_node_position.x,
                                 root_node_position.y)>>)

\* ---------------------------------------------------------- _draw_node

\* rect = pg.Rect(x - width // 2, y - height // 2, width, height): the
\* pixels [left, right) x [top, bottom) the node covers.  The scroll offset
\* shifts every rectangle alike and is left out.
NodeRect(node) ==
    LET left == node.position[1] - node.width \div 2
        top == node.position[2] - node.height \div 2
    IN  [left |-> left, top |-> top,
         right |-> left + node.width, bottom |-> top + node.height]

\* ------------------------------------------------------------ properties

Nodes == DOMAIN tree

IsLeaf(n) == BranchesOf(tree[n]) = <<>>

Children(n) == {BranchesOf(tree[n])[k] : k \in 1..Len(BranchesOf(tree[n]))}

\* self.measured_tree holds a measured tree.
Measured == measured_tree # None

\* measured_tree was measured (and aligned, once pc has passed "align") in
\* the current layout pass, under the current margins and spacings.
MeasuredThisPass == pc \in {"align", "assign", "render"}

\* The alignment pass has run in the current layout pass.
Aligned == v_stack_leafs /\ align_v_stack /\ pc \in {"assign", "render"}

\* The own width _measure_node gives node n under the current font and margins.
OwnWidth(n) == MeasureNode(tree[n]).width

SetMax(S) == CHOOSE v \in S : \A w \in S : w <= v

SetSum(f, S) ==
    LET RECURSIVE Sum(_)
        Sum(T) == IF T = {} THEN 0
                  ELSE LET n == CHOOSE v \in T : TRUE
                       IN  f[n] + Sum(T \ {n})
    IN  Sum(S)

Overlap(r, q) ==
    /\ r.left < q.right
    /\ q.left < r.right
    /\ r.top < q.bottom
    /\ q.top < r.bottom

\* C1: after a full layout pass no two distinct nodes' rectangles, as
\* _draw_node draws them, overlap.
NoTwoNodesOverlap ==
    pc = "render" =>
        \A a, b \in Nodes :
            a # b => ~Overlap(NodeRect(measured_tree[a]), NodeRect(measured_tree[b]))

\* A laid-out tree with a row of at least two subtrees, one of them a
\* stack of at least two leaves that alignment has widened.
NoTwoNodesOverlapWitness ==
    /\ pc = "render"
    /\ Aligned
    /\ \E p, s \in Nodes :
         /\ ~measured_tree[p].leaves_only
         /\ Len(tree[p].branches) >= 2
         /\ s \in Children(p)
         /\ measured_tree[s].leaves_only
         /\ Len(tree[s].branches) >= 2
         /\ measured_tree[s].width # OwnWidth(s)

\* C2: every node of a measured tree has subtree_width >= width and
\* subtree_height >= height, after measurement and after alignment.
SubtreeCoversNode ==
    Measured =>
        \A n \in Nodes :
            /\ measured_tree[n].subtree_width >= measured_tree[n].width
            /\ measured_tree[n].subtree_height >= measured_tree[n].height

\* An aligned tree with a row parent wider than its branches together and
\* a stack parent that alignment has widened.
SubtreeCoversNodeWitness ==
    /\ Aligned
    /\ \E p, s \in Nodes :
         /\ tree[p].branches # <<>>
         /\ ~measured_tree[p].leaves_only
         /\ measured_tree[p].subtree_width = measured_tree[p].width
         /\ measured_tree[s].leaves_only
         /\ measured_tree[s].width > OwnWidth(s)

\* C3: every leaf of a measured tree has subtree_width = width and
\* subtree_height = height, after measurement and after alignment.
LeafSubtreeIsNode ==
    Measured =>
        \A n \in Nodes :
            IsLeaf(n) =>
                /\ measured_tree[n].subtree_width = measured_tree[n].width
                /\ measured_tree[n].subtree_height = measured_tree[n].height

\* An aligned tree with a leaf whose width alignment has overwritten.
LeafSubtreeIsNodeWitness ==
    /\ Aligned
    /\ \E n \in Nodes : IsLeaf(n) /\ measured_tree[n].width > OwnWidth(n)

\* C4, as stated: leaves_only is true if and only if v_stack_leafs is set
\* and all of the node's direct children are leaves.
LeavesOnlyIffAllChildrenLeaves ==
    Measured =>
        \A n \in Nodes :
            measured_tree[n].leaves_only
              <=> (v_stack_leafs /\ \A c \in Children(n) : IsLeaf(c))

\* C4, amended: leaves_only is true if and only if v_stack_leafs is set,
\* the node has at least one child and all of its children are leaves.
LeavesOnlyIffStackOfLeaves ==
    Measured =>
        \A n \in Nodes :
            measured_tree[n].leaves_only
              <=> (/\ v_stack_leafs
                   /\ Children(n) # {}
                   /\ \A c \in Children(n) : IsLeaf(c))

\* A measured tree, stacking enabled, with a stack of leaves below a node
\* that has a leaf and a non-leaf child.
LeavesOnlyIffStackOfLeavesWitness ==
    /\ Measured
    /\ v_stack_leafs
    /\ \E p, s \in Nodes :
         /\ measured_tree[s].leaves_only
         /\ s \in Children(p)
         /\ ~measured_tree[p].leaves_only
         /\ \E c \in Children(p) : IsLeaf(c)

\* The nodes with children that are laid out as a row / as a stack.
RowNodes == {n \in Nodes : ~IsLeaf(n) /\ ~measured_tree[n].leaves_only}

StackNodes == {n \in Nodes : measured_tree[n].leaves_only}

Field(field) == [n \in Nodes |-> measured_tree[n][field]]

\* C5: in the measured tree of the current pass, before and after
\* alignment, every node with children that is not a leaf stack has
\* subtree_width = max(width, sum of the children's subtree_width +
\* horizontal_spacing * (childCount - 1)) and subtree_height = height +
\* vertical_spacing + max of the children's subtree_height.
RowFootprint ==
    MeasuredThisPass =>
        \A n \in RowNodes :
            LET band == SetSum(Field("subtree_width"), Children(n))
                          + horizontal_spacing * (Cardinality(Children(n)) - 1)
                deepest == SetMax({measured_tree[c].subtree_height : c \in Children(n)})
            IN  /\ measured_tree[n].subtree_width = Max(measured_tree[n].width, band)
                /\ measured_tree[n].subtree_height =
                       measured_tree[n].height + vertical_spacing + deepest

\* An aligned tree with a row node over a single child, that child a
\* stack alignment has widened, and a row node over several children.
RowFootprintWitness ==
    /\ Aligned
    /\ \E n \in RowNodes :
         /\ Cardinality(Children(n)) = 1
         /\ \E c \in Children(n) :
              /\ measured_tree[c].leaves_only
              /\ measured_tree[c].width > OwnWidth(c)
              /\ measured_tree[n].subtree_width = measured_tree[c].subtree_width
    /\ \E n \in RowNodes :
         /\ Cardinality(Children(n)) >= 2
         /\ measured_tree[n].subtree_width > measured_tree[n].width

\* C6: in the measured tree of the current pass, before and after
\* alignment, every leaf-stack node has subtree_width = max(width, max of
\* the children's width) and subtree_height = height + vertical_spacing +
\* sum of the children's height + vertical_spacing * (childCount - 1).
StackFootprint ==
    MeasuredThisPass =>
        \A n \in StackNodes :
            LET widest == SetMax({measured_tree[c].width : c \in Children(n)})
                column == SetSum(Field("height"), Children(n))
                            + vertical_spacing * (Cardinality(Children(n)) - 1)
            IN  /\ measured_tree[n].subtree_width = Max(measured_tree[n].width, widest)
                /\ measured_tree[n].subtree_height =
                       measured_tree[n].height + vertical_spacing + column

\* An aligned tree with a widened stack of at least two leaves of
\* different heights.
StackFootprintWitness ==
    /\ Aligned
    /\ \E n \in StackNodes :
         /\ measured_tree[n].width > OwnWidth(n)
         /\ \E c, d \in Children(n) : measured_tree[c].height < measured_tree[d].height

\* The nodes of the stack of leaf-stack node n: n and its children.
StackOf(n) == {n} \cup Children(n)

\* The nodes that belong to some stack.
Stacked == UNION {StackOf(n) : n \in StackNodes}

\* C7: with v_stack_leafs and align_v_stack set, after alignment every
\* leaf-stack node and each of its children have the same width, the
\* maximum of their widths before alignment; the width of every node
\* outside such a stack is unchanged.
AlignedStackWidths ==
    Aligned =>
        /\ \A n \in StackNodes :
             \A k \in StackOf(n) :
                 measured_tree[k].width = SetMax({OwnWidth(j) : j \in StackOf(n)})
        /\ \A n \in Nodes \ Stacked : measured_tree[n].width = OwnWidth(n)

\* A laid-out, aligned tree with a stack whose parent and one child were
\* narrower than another child, below a node outside every stack.
AlignedStackWidthsWitness ==
    /\ Aligned
    /\ pc = "render"
    /\ Nodes \ Stacked # {}
    /\ \E n \in StackNodes :
         \E c, d \in Children(n) :
             /\ OwnWidth(n) < OwnWidth(d)
             /\ OwnWidth(c) < OwnWidth(d)

SizeFields == {"width", "height", "subtree_width", "subtree_height"}

\* C8: _apply_vstack_alignment applied to an aligned measured tree changes
\* no width, height, subtree_width or subtree_height.
AlignmentIdempotent ==
    Aligned =>
        LET again == ApplyVstackAlignment(measured_tree, Root)
        IN  \A n \in Nodes : \A f \in SizeFields : again[n][f] = measured_tree[n][f]

\* An aligned tree in which the first alignment widened a stack below a
\* row node.
AlignmentIdempotentWitness ==
    /\ Aligned
    /\ \E p \in RowNodes :
         \E n \in Children(p) :
             /\ measured_tree[n].leaves_only
             /\ measured_tree[n].width > OwnWidth(n)
             /\ \E c \in Children(n) : measured_tree[c].width > OwnWidth(c)

AllFields ==
    {"title", "subtitle", "width", "height", "top_height", "bottom_height",
     "subtree_width", "subtree_height", "position", "leaves_only", "branches"}

\* The step leaves the input tree, the node set and every field of the
\* measured nodes outside `written` unchanged.
WritesOnly(written) ==
    /\ tree' = tree
    /\ DOMAIN measured_tree' = DOMAIN measured_tree
    /\ \A n \in DOMAIN measured_tree :
         \A f \in AllFields \ written : measured_tree'[n][f] = measured_tree[n][f]

\* C9: the alignment pass changes only width, subtree_width and
\* subtree_height, and a positioning call changes only position: leaves_only,
\* height, top_height, bottom_height, title, subtitle and the branches
\* (structure and order) stay as measured.
LayoutFrame ==
    [][/\ pc = "align" => WritesOnly({"width", "subtree_width", "subtree_height"})
       /\ pc = "assign" => WritesOnly({"position"})]_vars

\* A laid-out tree of at least three nodes whose alignment changed widths.
LayoutFrameWitness ==
    /\ Aligned
    /\ pc = "render"
    /\ Cardinality(Nodes) >= 3
    /\ \E n \in Nodes : measured_tree[n].width # OwnWidth(n)

\* C10: after positioning, for every row-mode parent and children i < j,
\* child_i.x + child_i.subtree_width / 2 <= child_j.x - child_j.subtree_width / 2
\* (both sides doubled, to stay in the integers).
SiblingBandsDisjoint ==
    pc = "render" =>
        \A p \in RowNodes :
            \A i, j \in 1..Len(tree[p].branches) :
                i < j =>
                    LET ci == measured_tree[tree[p].branches[i]]
                        cj == measured_tree[tree[p].branches[j]]
                    IN  2 * ci.position[1] + ci.subtree_width
                          <= 2 * cj.position[1] - cj.subtree_width

\* A laid-out tree with a row of at least three subtrees, one of even and
\* one of odd width, one of them wider than its root node.
SiblingBandsDisjointWitness ==
    /\ pc = "render"
    /\ \E p \in RowNodes :
         /\ Len(tree[p].branches) >= 3
         /\ \E c, d, e \in Children(p) :
              /\ measured_tree[c].subtree_width % 2 = 0
              /\ measured_tree[d].subtree_width % 2 = 1
              /\ measured_tree[e].subtree_width > measured_tree[e].width

\* The position of measured node n.
X(n) == measured_tree[n].position[1]

Y(n) == measured_tree[n].position[2]

\* sum(subtree_width) + horizontal_spacing * (n - 1) over the branches of p.
BandWidth(p) ==
    SetSum(Field("subtree_width"), Children(p))
      + horizontal_spacing * (Cardinality(Children(p)) - 1)

\* The left end of the band reserved for the i-th branch of row node p,
\* the band of all branches being centred on X(p) the way _draw_node
\* centres a rectangle on a position (left = x - width // 2).
BandOffset(p, i) ==
    LET before == {tree[p].branches[k] : k \in 1..(i - 1)}
    IN  (X(p) - BandWidth(p) \div 2)
          + SetSum(Field("subtree_width"), before)
          + horizontal_spacing * (i - 1)

\* C11: for every row-mode parent the band of its branches, of width
\* sum(subtree_width) + horizontal_spacing * (n - 1), is centred on the
\* parent's x; the branches follow one another from left to right in child
\* order, bands exactly horizontal_spacing apart, each branch centred in
\* its band (x = band offset + subtree_width // 2).
RowBandsCentred ==
    pc = "render" =>
        \A p \in RowNodes :
            \A i \in 1..Len(tree[p].branches) :
                LET c == tree[p].branches[i]
                IN  X(c) = BandOffset(p, i) + measured_tree[c].subtree_width \div 2

\* A laid-out tree with a row of at least two subtrees of different
\* widths, one of them odd, the row not at the root.
RowBandsCentredWitness ==
    /\ pc = "render"
    /\ \E p \in RowNodes :
         /\ p # Root
         /\ \E c, d \in Children(p) :
              /\ measured_tree[c].subtree_width # measured_tree[d].subtree_width
              /\ measured_tree[c].subtree_width % 2 = 1

\* C12, as stated: the children of a leaf stack have the x of the parent,
\* and consecutive children satisfy child_i.y + child_i.height / 2 +
\* vertical_spacing <= child_{i+1}.y - child_{i+1}.height / 2 (both sides
\* doubled, to stay in the integers).
StackChildrenSpaced ==
    pc = "render" =>
        \A p \in StackNodes :
            /\ \A c \in Children(p) : X(c) = X(p)
            /\ \A i \in 1..(Len(tree[p].branches) - 1) :
                 LET c == tree[p].branches[i]
                     d == tree[p].branches[i + 1]
                 IN  2 * Y(c) + measured_tree[c].height + 2 * vertical_spacing
                       <= 2 * Y(d) - measured_tree[d].height

\* The children that follow their parent directly below it: every child of
\* a row node and the first child of a stack.
DirectlyBelow(p) ==
    IF p \in StackNodes THEN {tree[p].branches[1]} ELSE Children(p)

\* C13, as stated: the gap between the bottom edge of a parent's rectangle
\* and the top edge of the rectangle of a child directly below it equals
\* vertical_spacing, for all heights.
ParentChildGap ==
    pc = "render" =>
        \A p \in Nodes :
            ~IsLeaf(p) =>
                \A c \in DirectlyBelow(p) :
                    NodeRect(measured_tree[c]).top - NodeRect(measured_tree[p]).bottom
                      = vertical_spacing

\* The tree is a chain root -> branch -> leaf.
IsChainOfThree ==
    /\ Cardinality(Nodes) = 3
    /\ tree[1].branches = <<2>>
    /\ tree[2].branches = <<3>>

\* C14, as stated: in a chain root -> branch -> leaf in row mode throughout,
\* leaf.y = root.y + root.height / 2 + vertical_spacing + branch.height +
\* vertical_spacing + leaf.height / 2 (both sides doubled).
ChainOffsetsCompose ==
    (pc = "render" /\ IsChainOfThree /\ 1 \in RowNodes /\ 2 \in RowNodes) =>
        2 * Y(3) = 2 * Y(1) + measured_tree[1].height + 2 * vertical_spacing
                     + 2 * measured_tree[2].height + 2 * vertical_spacing
                     + measured_tree[3].height

\* The parent of node n (n is not the root).
ParentOf(n) == CHOOSE p \in Nodes : n \in Children(p)

Positioned(n) == measured_tree[n].position # None

Pending == {calls[k].node : k \in 1..Len(calls)}

\* C15: within a layout pass every position is None from _measure_tree
\* until _assign_positions visits the node, a node is positioned only after
\* its parent, a position once assigned stays as it is, and when
\* _update_tree_layout has returned every node has a position.
PositionLifecycle ==
    /\ [](/\ pc = "align" => \A n \in Nodes : ~Positioned(n)
          /\ pc = "assign" =>
               /\ \A n \in Nodes \ {Root} : Positioned(n) => Positioned(ParentOf(n))
               /\ \A n \in Pending : ~Positioned(n)
          /\ pc = "render" => \A n \in Nodes : Positioned(n))
    /\ [][/\ pc = "measure" => \A n \in Nodes : measured_tree'[n].position = None
          /\ pc = "assign" =>
               /\ \A n \in Nodes :
                    Positioned(n) =>
                        measured_tree'[n].position = measured_tree[n].position
               /\ measured_tree'[Head(calls).node].position # None]_vars

\* A positioning pass half way: a node and its first branch have positions,
\* a later branch and a stacked leaf still have none.
PositionLifecycleWitness ==
    /\ pc = "assign"
    /\ \E p \in RowNodes :
         /\ Positioned(p)
         /\ \E c, d \in Children(p) : Positioned(c) /\ ~Positioned(d)
    /\ \E s \in StackNodes : \E c \in Children(s) : ~Positioned(c)

\* C16, as stated: in every reachable state min_level <= zoom <= max_level.
ZoomWithinLevels == min_zoom <= zoom /\ zoom <= max_zoom

\* ---------------------------------------------------- minimum node width

\* The configured minimum node width of the docstring of _measure_node
\* ("while enforcing a minimum node width"); the configuration model has no
\* such field and _measure_node reads none.
min_node_width == 6

\* The widest rendered line of the title and the subtitle of node n.
MaxLineWidth(n) ==
    SetMax({FontWidth(font_size, tree[n].title[k]) : k \in DOMAIN tree[n].title}
             \cup {FontWidth(font_size, tree[n].subtitle[k]) :
                       k \in DOMAIN tree[n].subtitle})

\* C19, as stated: the own width _measure_tree records for a node is its
\* widest title or subtitle line plus twice the horizontal margin, and at
\* least the configured minimum node width.
OwnWidthFloored ==
    (MeasuredThisPass /\ ~Aligned) =>
        \A n \in Nodes :
            measured_tree[n].width =
                Max(MaxLineWidth(n) + 2 * node_margin_x, min_node_width)

\* --------------------------------------------------------- malformed input

\* Some node of the input tree lacks its title or its subtitle.
Malformed == \E n \in Nodes : ~({"title", "subtitle"} \subseteq DOMAIN tree[n])

\* C17: when a node of the input tree lacks its title or subtitle, the
\* layout pass raises out of draw, no later pass runs, and
\* self.measured_tree is left at the value it had before the pass; a tree
\* whose nodes carry both keys never raises.
MalformedInputRaises ==
    /\ [](/\ Malformed => /\ pc \in {"constructed", "measure", "raised"}
                          /\ measured_tree = None
          /\ pc = "raised" => Malformed)
    /\ [][(pc = "measure" /\ Malformed) =>
              (pc' = "raised" /\ measured_tree' = measured_tree)]_vars

\* The pass has raised on a tree whose root is complete and whose last node,
\* not a branch of the root, lacks a key.
MalformedInputRaisesWitness ==
    /\ pc = "raised"
    /\ KeyErrors(tree[Root]) = {}
    /\ \E n \in Nodes \ (Children(Root) \cup {Root}) : KeyErrors(tree[n]) # {}
    /\ measured_tree = None

\* ------------------------------------------------- absent "branches" keys

\* The tree t with an empty branches list in every node that has no
\* "branches" key.
Normalized(t) ==
    [n \in DOMAIN t |->
        IF "branches" \in DOMAIN t[n] THEN t[n]
        ELSE [f \in DOMAIN t[n] \cup {"branches"} |->
                 IF f = "branches" THEN <<>> ELSE t[n][f]]]

AbsentBranches == {n \in Nodes : "branches" \notin DOMAIN tree[n]}

\* C18: a tree with leaves that have no "branches" key gets the maximum
\* depth, the measured sizes and flags, the aligned widths and the positions
\* of the same tree with empty branches lists in their place, and raises
\* only if that tree raises.
AbsentBranchesAsEmpty ==
    LET t == Normalized(tree)
    IN  /\ max_depth = GetMaxDepth(t, Root, 0)
        /\ pc = "raised" => Raises(t, Root)
        /\ pc = "align" => measured_tree = MeasureTree(t, Root)
        /\ (pc = "assign" /\ calls = <<Call(Root, root_node_position.x,
                                             root_node_position.y)>>) =>
               measured_tree =
                   IF Aligned THEN ApplyVstackAlignment(MeasureTree(t, Root), Root)
                   ELSE MeasureTree(t, Root)
        /\ pc = "render" => measured_tree = UpdateTreeLayout(t)

\* A stack of two leaves is laid out and aligned, one leaf without a
\* "branches" key and one with an empty branches list.
AbsentBranchesAsEmptyWitness ==
    /\ pc = "render"
    /\ Aligned
    /\ \E p \in StackNodes :
         \E c, d \in Children(p) :
             /\ c \in AbsentBranches
             /\ d \notin AbsentBranches

\* ----------------------------------------------------- the cached layout

Parameters ==
    <<font_size, node_margin_x, node_margin_y, horizontal_spacing,
      vertical_spacing>>

\* C20: the font size, margins and spacings are always those derived from
\* the current zoom, and the measured_tree each frame renders is the result
\* of a whole layout pass of the input tree under them; the zoom changes
\* only by a wheel event of the render loop, which starts a new layout
\* pass, and a wheel event that leaves the zoom as it is (a scroll, or a
\* zoom clamped to no change) leaves the parameters, measured_tree and the
\* render loop as they are.
CachedLayoutFresh ==
    /\ [](/\ font_size = scaled_size(zoom)
          /\ node_margin_x = ZoomedMarginX(zoom)
          /\ node_margin_y = ZoomedMarginY(zoom)
          /\ horizontal_spacing = ZoomedHorizontalSpacing(zoom)
          /\ vertical_spacing = ZoomedVerticalSpacing(zoom)
          /\ pc = "render" => measured_tree = UpdateTreeLayout(tree))
    /\ [][/\ zoom' # zoom => (pc = "render" /\ pc' = "measure")
          /\ <<scroll_x, scroll_y>>' # <<scroll_x, scroll_y>> =>
                (pc = "render" /\ zoom' = zoom)
          /\ (pc = "render" /\ zoom' = zoom) =>
                UNCHANGED <<Parameters, measured_tree, pc>>]_vars

\* After scrolling both ways a zoom change has started a new layout pass:
\* the cached measured_tree is still the one of the previous zoom.
CachedLayoutFreshWitness ==
    /\ pc = "measure"
    /\ measured_tree # None
    /\ measured_tree # UpdateTreeLayout(tree)
    /\ Len(BranchesOf(tree[Root])) > 1
    /\ scroll_x # 0
    /\ scroll_y # 0

====
